---------------------------- MODULE Spec2Model ----------------------------
(***************************************************************************)
(* Model of the book resource of cloud-natives-basic:                      *)
(*   src/api/resource/book/handler.go  (handlers and mappers)              *)
(*   src/unnamed/part_000              (DTO, Form, Book, Books)            *)
(*                                                                         *)
(* Strings are tuples of one-character strings, so that lengths, character *)
(* classes and the date layout are computed and not assumed.               *)
(* The Repository and the error helpers of package err are not among the   *)
(* sources; they are modelled from the specification.                      *)
(***************************************************************************)
EXTENDS Integers, Sequences, FiniteSets, TLC

(* Number of distinct non-nil UUIDs uuid.New() can return in the model. *)
NumIds == 2

(* ------------------------------ strings ------------------------------ *)

DigitChars == <<"0", "1", "2", "3", "4", "5", "6", "7", "8", "9">>

Digits == {DigitChars[i] : i \in 1..10}

Letters ==
  {"a", "b", "c", "d", "e", "f", "g", "h", "i", "j", "k", "l", "m",
   "n", "o", "p", "q", "r", "s", "t", "u", "v", "w", "x", "y", "z",
   "A", "B", "C", "D", "E", "F", "G", "H", "I", "J", "K", "L", "M",
   "N", "O", "P", "Q", "R", "S", "T", "U", "V", "W", "X", "Y", "Z"}

IsDigits(s) == \A i \in 1..Len(s) : s[i] \in Digits

DigitVal(c) == (CHOOSE i \in 1..10 : DigitChars[i] = c) - 1

RECURSIVE Atoi(_)
Atoi(s) ==
  IF Len(s) = 0 THEN 0
  ELSE 10 * Atoi(SubSeq(s, 1, Len(s) - 1)) + DigitVal(s[Len(s)])

(* n written with exactly w digits, zero padded *)
RECURSIVE Pad(_, _)
Pad(n, w) ==
  IF w = 0 THEN <<>>
  ELSE Pad(n \div 10, w - 1) \o <<DigitChars[(n % 10) + 1]>>

(* ------------------------- time.Parse / Format ------------------------ *)

ZeroTime == [year |-> 1, month |-> 1, day |-> 1]

IsLeap(y) == (y % 4 = 0) /\ ((y % 100 # 0) \/ (y % 400 = 0))

DaysIn(m, y) ==
  IF m = 2 THEN (IF IsLeap(y) THEN 29 ELSE 28)
  ELSE IF m \in {4, 6, 9, 11} THEN 30 ELSE 31

(* time.Parse("2006-01-02", s): four digits, '-', two digits, '-', two     *)
(* digits, nothing more; month and day in range for the calendar. On error *)
(* the time returned is the zero time.                                     *)
TimeParse(s) ==
  IF /\ Len(s) = 10
     /\ s[5] = "-"
     /\ s[8] = "-"
     /\ IsDigits(SubSeq(s, 1, 4))
     /\ IsDigits(SubSeq(s, 6, 7))
     /\ IsDigits(SubSeq(s, 9, 10))
  THEN LET y == Atoi(SubSeq(s, 1, 4))
           m == Atoi(SubSeq(s, 6, 7))
           d == Atoi(SubSeq(s, 9, 10))
       IN IF m \in 1..12 /\ d >= 1 /\ d <= DaysIn(m, y)
          THEN [ok |-> TRUE, t |-> [year |-> y, month |-> m, day |-> d]]
          ELSE [ok |-> FALSE, t |-> ZeroTime]
  ELSE [ok |-> FALSE, t |-> ZeroTime]

(* t.Format("2006-01-02") *)
TimeFormat(t) ==
  Pad(t.year, 4) \o <<"-">> \o Pad(t.month, 2) \o <<"-">> \o Pad(t.day, 2)

(* --------------------------- uuid.Parse/String ------------------------ *)

NilUUID == 0

UUIDs == 1..NumIds

(* A path segment: the canonical or the urn form of a UUID, or text that   *)
(* is no UUID.                                                             *)
PathParams ==
  [kind : {"canonical", "urn"}, id : {NilUUID} \cup UUIDs]
    \cup {[kind |-> "garbage", id |-> NilUUID]}

(* faulty variant: every path segment is taken for a UUID *)
UuidParseLenient(p) == [ok |-> TRUE, id |-> p.id]

UuidParse(p) ==
  IF p.kind \in {"canonical", "urn"}
  THEN [ok |-> TRUE, id |-> p.id]
  ELSE [ok |-> FALSE, id |-> NilUUID]

UuidString(id) == [kind |-> "canonical", id |-> id]


(* ------------------------------- Form --------------------------------- *)

(* the parameter of the max tag of Title and Author *)
MaxLen == 255

(* Request bodies: text that is no JSON object of strings, or an object    *)
(* holding any subset of keys. json.Decoder leaves the field of an absent  *)
(* key at its zero value "" and ignores keys Form does not declare.        *)
Field(o, key) == IF key \in DOMAIN o THEN o[key] ELSE <<>>

ZeroForm ==
  [Title |-> <<>>, Author |-> <<>>, PublishedDate |-> <<>>,
   ImageURL |-> <<>>, Description |-> <<>>]

JsonDecode(body) ==
  IF body.kind = "object"
  THEN [ok |-> TRUE,
        form |-> [Title         |-> Field(body.fields, "title"),
                  Author        |-> Field(body.fields, "author"),
                  PublishedDate |-> Field(body.fields, "published_date"),
                  ImageURL      |-> Field(body.fields, "image_url"),
                  Description   |-> Field(body.fields, "description")]]
  ELSE [ok |-> FALSE, form |-> ZeroForm]

(* custom tag alphaspace: letters and spaces only *)
AlphaSpace(s) == \A i \in 1..Len(s) : s[i] \in Letters \cup {" "}

SchemeChars == Letters \cup Digits \cup {"+", "-", "."}

(* index of the first character that cannot be part of a scheme *)
SchemeStop(s) ==
  IF \E i \in 1..Len(s) : s[i] \notin SchemeChars
  THEN CHOOSE i \in 1..Len(s) :
         /\ s[i] \notin SchemeChars
         /\ \A j \in 1..(i - 1) : s[j] \in SchemeChars
  ELSE Len(s) + 1

(* tag url: not empty, url.Parse finds a scheme, and a host or an opaque   *)
(* part follows it (fragments are not modelled).                           *)
IsURL(s) ==
  LET k == SchemeStop(s)
      rest == SubSeq(s, k + 1, Len(s))
  IN /\ Len(s) > 0
     /\ k > 1
     /\ k <= Len(s)
     /\ s[k] = ":"
     /\ s[1] \in Letters
     /\ IF Len(rest) >= 2 /\ rest[1] = "/" /\ rest[2] = "/"
        THEN Len(rest) >= 3 /\ rest[3] # "/"
        ELSE Len(rest) >= 1 /\ rest[1] # "/"

TagHolds(tag, s) ==
  CASE tag = "required"   -> Len(s) > 0
    [] tag = "max"        -> Len(s) <= MaxLen
    [] tag = "alphaspace" -> AlphaSpace(s)
    [] tag = "datetime"   -> TimeParse(s).ok
    [] tag = "url"        -> IsURL(s)

(* the validate tags of Form, in declaration order *)
FormTags ==
  << [field |-> "Title",         tags |-> <<"required", "max">>],
     [field |-> "Author",        tags |-> <<"required", "alphaspace", "max">>],
     [field |-> "PublishedDate", tags |-> <<"required", "datetime">>],
     [field |-> "ImageURL",      tags |-> <<"url">>],
     [field |-> "Description",   tags |-> <<>>] >>

(* the first tag of a field that fails, "" when all hold *)
RECURSIVE FirstFailing(_, _)
FirstFailing(tags, s) ==
  IF Len(tags) = 0 THEN ""
  ELSE IF ~TagHolds(Head(tags), s) THEN Head(tags)
  ELSE FirstFailing(Tail(tags), s)

(* validator.Struct(form): every field is checked; a field stops at its    *)
(* first failing tag and contributes one error.                            *)
RECURSIVE ValidateFrom(_, _)
ValidateFrom(form, i) ==
  IF i > Len(FormTags) THEN <<>>
  ELSE LET ft == FormTags[i]
           bad == FirstFailing(ft.tags, form[ft.field])
       IN (IF bad = "" THEN <<>> ELSE <<[field |-> ft.field, tag |-> bad]>>)
            \o ValidateFrom(form, i + 1)

(* faulty variant: validation stops at the first field in error *)
ValidatorStructFirstOnly(form) ==
  LET all == ValidateFrom(form, 1)
  IN IF Len(all) = 0 THEN <<>> ELSE <<Head(all)>>

ValidatorStruct(form) == ValidateFrom(form, 1)

(* validatorUtil.ToErrResponse: one entry per field error, in order *)
ToErrResponse(errs) == [i \in 1..Len(errs) |-> errs[i]]

(* ------------------------------ mappers ------------------------------- *)

(* faulty variant: the published date is not parsed *)
FormToModelNoDate(f) ==
  [ID            |-> NilUUID,
   Title         |-> f.Title,
   Author        |-> f.Author,
   PublishedDate |-> ZeroTime,
   ImageURL      |-> f.ImageURL,
   Description   |-> f.Description,
   DeletedAt     |-> [Valid |-> FALSE]]

FormToModel(f) ==
  [ID            |-> NilUUID,
   Title         |-> f.Title,
   Author        |-> f.Author,
   PublishedDate |-> TimeParse(f.PublishedDate).t,
   ImageURL      |-> f.ImageURL,
   Description   |-> f.Description,
   DeletedAt     |-> [Valid |-> FALSE]]

BookToDto(b) ==
  [ID            |-> UuidString(b.ID),
   Title         |-> b.Title,
   Author        |-> b.Author,
   PublishedDate |-> TimeFormat(b.PublishedDate),
   ImageURL      |-> b.ImageURL,
   Description   |-> b.Description]

(* faulty variant: the list is filled from the back *)
BooksToDtoReversed(bs) == [i \in 1..Len(bs) |-> BookToDto(bs[Len(bs) + 1 - i])]

BooksToDto(bs) == [i \in 1..Len(bs) |-> BookToDto(bs[i])]

(* --------------------------- error helpers ---------------------------- *)

StatusOK == 200
StatusCreated == 201
StatusBadRequest == 400
StatusNotFound == 404
StatusUnprocessableEntity == 422
StatusInternalServerError == 500

NoBody == [kind |-> "none"]

(* package err: each helper writes its status and the given body *)
ServerError(code) ==
  [status |-> StatusInternalServerError, body |-> [kind |-> "error", code |-> code]]

BadRequest(code) ==
  [status |-> StatusBadRequest, body |-> [kind |-> "error", code |-> code]]

ValidationErrors(list) ==
  [status |-> StatusUnprocessableEntity, body |-> [kind |-> "errors", list |-> list]]

(* ----------------------------- Repository ----------------------------- *)
(* Every call is one statement on the books table; dbErr is a failure of   *)
(* the store. Rows carrying a deletion marker are invisible to List, Read, *)
(* Update and Delete. The primary key rejects a second row with an ID.     *)

ZeroBook == FormToModel(ZeroForm)

Live(b) == ~b.DeletedAt.Valid

Matches(b, id) == b.ID = id /\ Live(b)

Count(rs, id) == Cardinality({i \in 1..Len(rs) : Matches(rs[i], id)})

RepoList(rs, dbErr) ==
  [books |-> IF dbErr THEN <<>> ELSE SelectSeq(rs, Live), err |-> dbErr]

RepoCreate(rs, book, dbErr) ==
  IF dbErr \/ \E i \in 1..Len(rs) : rs[i].ID = book.ID
  THEN [rows |-> rs, n |-> 0, err |-> TRUE]
  ELSE [rows |-> Append(rs, book), n |-> 1, err |-> FALSE]

RepoRead(rs, id, dbErr) ==
  IF dbErr THEN [book |-> ZeroBook, err |-> "error"]
  ELSE IF Count(rs, id) = 0
  THEN [book |-> ZeroBook, err |-> "ErrRecordNotFound"]
  ELSE [book |-> rs[CHOOSE i \in 1..Len(rs) : Matches(rs[i], id)], err |-> "nil"]

RepoUpdate(rs, book, dbErr) ==
  IF dbErr THEN [rows |-> rs, n |-> 0, err |-> TRUE]
  ELSE [rows |-> [i \in 1..Len(rs) |->
                    IF Matches(rs[i], book.ID)
                    THEN [book EXCEPT !.DeletedAt = rs[i].DeletedAt]
                    ELSE rs[i]],
        n |-> Count(rs, book.ID),
        err |-> FALSE]

RepoDelete(rs, id, dbErr) ==
  IF dbErr THEN [rows |-> rs, n |-> 0, err |-> TRUE]
  ELSE [rows |-> [i \in 1..Len(rs) |->
                    IF Matches(rs[i], id)
                    THEN [rs[i] EXCEPT !.DeletedAt = [Valid |-> TRUE]]
                    ELSE rs[i]],
        n |-> Count(rs, id),
        err |-> FALSE]

(* one entry of the log of Repository calls a request made: the function, *)
(* the ID passed, the error returned ("nil", "ErrRecordNotFound" or       *)
(* "error") and the number of rows returned or affected                   *)
ErrOf(failed) == IF failed THEN "error" ELSE "nil"

Call(fn, id, err, n) == [fn |-> fn, id |-> id, err |-> err, n |-> n]

(* ------------------------------ handlers ------------------------------ *)
(* A handler maps the store and its inputs to the store it leaves, the     *)
(* response it writes and the Repository calls it made.                    *)

Result(rs, resp, cs) == [rows |-> rs, resp |-> resp, calls |-> cs]

ListHandler(rs, dbErr) ==
  LET r == RepoList(rs, dbErr)
      cs == <<Call("List", NilUUID, ErrOf(r.err), Len(r.books))>>
  IN IF r.err
     THEN Result(rs, ServerError("RespDBDataAccessFailure"), cs)
     ELSE IF Len(r.books) = 0
     THEN Result(rs, [status |-> StatusOK, body |-> [kind |-> "text", text |-> "[]"]], cs)
     ELSE Result(rs, [status |-> StatusOK,
                      body |-> [kind |-> "json", value |-> BooksToDto(r.books)]], cs)

(* faulty variant: an id key of the body, when present, becomes the ID *)
CreateHandlerBodyID(rs, body, newID, dbErr) ==
  LET d == JsonDecode(body)
      errs == ValidatorStruct(d.form)
      id == IF "id" \in DOMAIN body.fields THEN Atoi(body.fields["id"]) ELSE newID
      newBook == [FormToModel(d.form) EXCEPT !.ID = id]
      r == RepoCreate(rs, newBook, dbErr)
  IN IF ~d.ok
     THEN Result(rs, ServerError("RespJSONDecodeFailure"), <<>>)
     ELSE IF Len(errs) > 0
     THEN Result(rs, ValidationErrors(ToErrResponse(errs)), <<>>)
     ELSE IF r.err
     THEN Result(r.rows, ServerError("RespDBDataInsertFailure"),
                 <<Call("Create", id, "error", r.n)>>)
     ELSE Result(r.rows, [status |-> StatusCreated, body |-> NoBody],
                 <<Call("Create", id, "nil", r.n)>>)

(* newID is the value uuid.New() returns in this request *)
CreateHandler(rs, body, newID, dbErr) ==
  LET d == JsonDecode(body)
      errs == ValidatorStruct(d.form)
      newBook == [FormToModel(d.form) EXCEPT !.ID = newID]
      r == RepoCreate(rs, newBook, dbErr)
  IN IF ~d.ok
     THEN Result(rs, ServerError("RespJSONDecodeFailure"), <<>>)
     ELSE IF Len(errs) > 0
     THEN Result(rs, ValidationErrors(ToErrResponse(errs)), <<>>)
     ELSE IF r.err
     THEN Result(r.rows, ServerError("RespDBDataInsertFailure"),
                 <<Call("Create", newID, "error", r.n)>>)
     ELSE Result(r.rows, [status |-> StatusCreated, body |-> NoBody],
                 <<Call("Create", newID, "nil", r.n)>>)

(* faulty variant: gorm.ErrRecordNotFound is not told from other errors *)
ReadHandlerNoNotFound(rs, param, dbErr) ==
  LET p == UuidParse(param)
      r == RepoRead(rs, p.id, dbErr)
      cs == <<Call("Read", p.id, r.err, IF r.err = "nil" THEN 1 ELSE 0)>>
  IN IF ~p.ok
     THEN Result(rs, BadRequest("RespInvalidURLParamID"), <<>>)
     ELSE IF r.err # "nil"
     THEN Result(rs, ServerError("RespDBDataAccessFailure"), cs)
     ELSE Result(rs, [status |-> StatusOK,
                      body |-> [kind |-> "json", value |-> BookToDto(r.book)]], cs)

ReadHandler(rs, param, dbErr) ==
  LET p == UuidParse(param)
      r == RepoRead(rs, p.id, dbErr)
      cs == <<Call("Read", p.id, r.err, IF r.err = "nil" THEN 1 ELSE 0)>>
  IN IF ~p.ok
     THEN Result(rs, BadRequest("RespInvalidURLParamID"), <<>>)
     ELSE IF r.err = "ErrRecordNotFound"
     THEN Result(rs, [status |-> StatusNotFound, body |-> NoBody], cs)
     ELSE IF r.err # "nil"
     THEN Result(rs, ServerError("RespDBDataAccessFailure"), cs)
     ELSE Result(rs, [status |-> StatusOK,
                      body |-> [kind |-> "json", value |-> BookToDto(r.book)]], cs)

(* faulty variant: the number of rows modified is not looked at *)
UpdateHandlerNoRowsCheck(rs, param, body, dbErr) ==
  LET p == UuidParse(param)
      d == JsonDecode(body)
      errs == ValidatorStruct(d.form)
      book == [FormToModel(d.form) EXCEPT !.ID = p.id]
      r == RepoUpdate(rs, book, dbErr)
      cs == <<Call("Update", p.id, ErrOf(r.err), r.n)>>
  IN IF ~p.ok
     THEN Result(rs, BadRequest("RespInvalidURLParamID"), <<>>)
     ELSE IF ~d.ok
     THEN Result(rs, ServerError("RespJSONDecodeFailure"), <<>>)
     ELSE IF Len(errs) > 0
     THEN Result(rs, ValidationErrors(ToErrResponse(errs)), <<>>)
     ELSE IF r.err
     THEN Result(r.rows, ServerError("RespDBDataUpdateFailure"), cs)
     ELSE Result(r.rows, [status |-> StatusOK, body |-> NoBody], cs)

UpdateHandler(rs, param, body, dbErr) ==
  LET p == UuidParse(param)
      d == JsonDecode(body)
      errs == ValidatorStruct(d.form)
      book == [FormToModel(d.form) EXCEPT !.ID = p.id]
      r == RepoUpdate(rs, book, dbErr)
      cs == <<Call("Update", p.id, ErrOf(r.err), r.n)>>
  IN IF ~p.ok
     THEN Result(rs, BadRequest("RespInvalidURLParamID"), <<>>)
     ELSE IF ~d.ok
     THEN Result(rs, ServerError("RespJSONDecodeFailure"), <<>>)
     ELSE IF Len(errs) > 0
     THEN Result(rs, ValidationErrors(ToErrResponse(errs)), <<>>)
     ELSE IF r.err
     THEN Result(r.rows, ServerError("RespDBDataUpdateFailure"), cs)
     ELSE IF r.n = 0
     THEN Result(r.rows, [status |-> StatusNotFound, body |-> NoBody], cs)
     ELSE Result(r.rows, [status |-> StatusOK, body |-> NoBody], cs)

(* faulty variant: the number of rows deleted is not looked at *)
DeleteHandlerNoRowsCheck(rs, param, dbErr) ==
  LET p == UuidParse(param)
      r == RepoDelete(rs, p.id, dbErr)
      cs == <<Call("Delete", p.id, ErrOf(r.err), r.n)>>
  IN IF ~p.ok
     THEN Result(rs, BadRequest("RespInvalidURLParamID"), <<>>)
     ELSE IF r.err
     THEN Result(r.rows, BadRequest("RespDBDataRemoveFailure"), cs)
     ELSE Result(r.rows, [status |-> StatusOK, body |-> NoBody], cs)

DeleteHandler(rs, param, dbErr) ==
  LET p == UuidParse(param)
      r == RepoDelete(rs, p.id, dbErr)
      cs == <<Call("Delete", p.id, ErrOf(r.err), r.n)>>
  IN IF ~p.ok
     THEN Result(rs, BadRequest("RespInvalidURLParamID"), <<>>)
     ELSE IF r.err
     THEN Result(r.rows, BadRequest("RespDBDataRemoveFailure"), cs)
     ELSE IF r.n = 0
     THEN Result(r.rows, [status |-> StatusNotFound, body |-> NoBody], cs)
     ELSE Result(r.rows, [status |-> StatusOK, body |-> NoBody], cs)

(* ------------------------------ requests ------------------------------ *)

sGo == <<"G", "o">>
sLong == [i \in 1..(MaxLen + 1) |-> "x"]
sAlB == <<"A", "l", " ", "B">>
sR2 == <<"R", "2">>
sLeapDay == <<"2", "0", "2", "4", "-", "0", "2", "-", "2", "9">>
sNewYearsEve == <<"1", "9", "9", "9", "-", "1", "2", "-", "3", "1">>
sNoSuchDay == <<"2", "0", "2", "3", "-", "0", "2", "-", "2", "9">>
sHttp == <<"h", "t", "t", "p", ":", "/", "/", "a">>
sAbc == <<"a", "b", "c">>
sD == <<"d">>

Object(fields) == [kind |-> "object", fields |-> fields]

FullBody ==
  Object([title |-> sGo, author |-> sAlB, published_date |-> sLeapDay,
          image_url |-> sHttp, description |-> sD])

(* no description, and an id key, which Form does not declare *)
BodyWithID ==
  Object([id |-> <<"1">>, title |-> sGo, author |-> sAlB,
          published_date |-> sNewYearsEve, image_url |-> sHttp])

NoImageBody ==
  Object([title |-> sGo, author |-> sAlB, published_date |-> sLeapDay,
          description |-> sD])

TwoViolationsBody ==
  Object([author |-> sR2, published_date |-> sLeapDay, image_url |-> sHttp])

BadImageBody ==
  Object([title |-> sGo, author |-> sAlB, published_date |-> sLeapDay,
          image_url |-> sAbc])

LongTitleBody ==
  Object([title |-> sLong, author |-> sAlB, published_date |-> sLeapDay,
          image_url |-> sHttp])

BadDateBody ==
  Object([title |-> sGo, author |-> sAlB, published_date |-> sNoSuchDay,
          image_url |-> sHttp])

EmptyObjectBody == Object(<<>>)

GarbageBody == [kind |-> "garbage"]

Bodies ==
  {FullBody, BodyWithID, NoImageBody, TwoViolationsBody, BadImageBody,
   LongTitleBody, BadDateBody, EmptyObjectBody, GarbageBody}

(* --------------------------- state machine ---------------------------- *)

VARIABLES
  rows,       \* the books table, in insertion order
  req,        \* the last request handled
  resp,       \* the response written to it
  calls,      \* the Repository calls it made
  generated   \* the value of uuid.New() in it, NilUUID when not reached

vars == <<rows, req, resp, calls, generated>>

Init ==
  /\ rows = <<>>
  /\ req = [op |-> "none"]
  /\ resp = [status |-> 0, body |-> NoBody]
  /\ calls = <<>>
  /\ generated = NilUUID

(* The server is idle between requests; a handler runs from an idle state. *)
(* Each handler makes at most one Repository call, one statement of the    *)
(* store, so requests served concurrently behave as served in some order.  *)
Idle == req.op = "none"

Respond(h) ==
  /\ rows' = h.rows
  /\ resp' = h.resp
  /\ calls' = h.calls

List ==
  \E dbErr \in BOOLEAN :
    /\ Idle
    /\ req' = [op |-> "List"]
    /\ generated' = NilUUID
    /\ Respond(ListHandler(rows, dbErr))

Create ==
  \E body \in Bodies, newID \in UUIDs, dbErr \in BOOLEAN :
    LET h == CreateHandler(rows, body, newID, dbErr)
    IN /\ Idle
       /\ req' = [op |-> "Create", body |-> body]
       /\ generated' = IF Len(h.calls) > 0 THEN newID ELSE NilUUID
       /\ Respond(h)

Read ==
  \E param \in PathParams, dbErr \in BOOLEAN :
    /\ Idle
    /\ req' = [op |-> "Read", param |-> param]
    /\ generated' = NilUUID
    /\ Respond(ReadHandler(rows, param, dbErr))

Update ==
  \E param \in PathParams, body \in Bodies, dbErr \in BOOLEAN :
    /\ Idle
    /\ req' = [op |-> "Update", param |-> param, body |-> body]
    /\ generated' = NilUUID
    /\ Respond(UpdateHandler(rows, param, body, dbErr))

Delete ==
  \E param \in PathParams, dbErr \in BOOLEAN :
    /\ Idle
    /\ req' = [op |-> "Delete", param |-> param]
    /\ generated' = NilUUID
    /\ Respond(DeleteHandler(rows, param, dbErr))

(* The handler has returned: the request and its response are gone, the    *)
(* store stays.                                                            *)
Return ==
  /\ ~Idle
  /\ req' = [op |-> "none"]
  /\ resp' = [status |-> 0, body |-> NoBody]
  /\ calls' = <<>>
  /\ generated' = NilUUID
  /\ UNCHANGED rows

Next == List \/ Create \/ Read \/ Update \/ Delete \/ Return

Spec == Init /\ [][Next]_vars

(* ----------------------------- properties ----------------------------- *)
(* The properties below are about one request: they relate the store       *)
(* before it (rows) to the request, its response, its Repository calls and *)
(* the store after it (the primed variables).                              *)

StoreFailed(cs) == \E i \in 1..Len(cs) : cs[i].err = "error"

HasPath(r) == r.op \in {"Read", "Update", "Delete"}

PathID(r) == UuidParse(r.param).id

WellFormed(r) == r.param.kind # "garbage"

IsLiveID(rs, id) == \E i \in 1..Len(rs) : rs[i].ID = id /\ ~rs[i].DeletedAt.Valid

IsDeletedID(rs, id) == \E i \in 1..Len(rs) : rs[i].ID = id /\ rs[i].DeletedAt.Valid

(* a row that carries the deletion marker keeps its place, ID and marker *)
MarkersStay ==
  \A i \in 1..Len(rows) :
    rows[i].DeletedAt.Valid =>
      /\ i <= Len(rows')
      /\ rows'[i].ID = rows[i].ID
      /\ rows'[i].DeletedAt.Valid

(* C1: a Delete of a live identifier that the store executes answers 200   *)
(* with no body; a Delete of an identifier that is already soft-deleted is *)
(* never a success and, when the store executes it, answers 404; and a     *)
(* deleted record stays deleted, so this holds for every later Delete.     *)
C1_Step ==
  /\ MarkersStay
  /\ (req'.op = "Delete" /\ WellFormed(req')) =>
       /\ (IsLiveID(rows, PathID(req')) /\ ~StoreFailed(calls')) =>
            resp' = [status |-> 200, body |-> NoBody]
       /\ IsDeletedID(rows, PathID(req')) =>
            /\ resp'.status # 200
            /\ ~StoreFailed(calls') => resp' = [status |-> 404, body |-> NoBody]

C1_DeleteTwice == [][C1_Step]_vars

C1_Witness ==
  /\ req.op = "Delete"
  /\ resp.status = 404
  /\ WellFormed(req)
  /\ IsDeletedID(rows, PathID(req))

(* C2: a Delete answered 200 leaves its row in the store, carrying the     *)
(* deletion marker; from then on no List answer holds a DTO of that        *)
(* identifier and every Read of it that the store executes answers 404.    *)
C2_Step ==
  /\ MarkersStay
  /\ Len(rows') >= Len(rows)
  /\ (req'.op = "Delete" /\ resp'.status = 200) =>
       /\ Len(rows') = Len(rows)
       /\ IsLiveID(rows, PathID(req'))
       /\ IsDeletedID(rows', PathID(req'))
  /\ (req'.op = "List" /\ resp'.body.kind = "json") =>
       \A i \in 1..Len(rows) : \A j \in 1..Len(resp'.body.value) :
         rows[i].DeletedAt.Valid =>
           resp'.body.value[j].ID # [kind |-> "canonical", id |-> rows[i].ID]
  /\ (req'.op = "Read" /\ WellFormed(req') /\ IsDeletedID(rows, PathID(req'))) =>
       /\ resp'.status # 200
       /\ ~StoreFailed(calls') => resp' = [status |-> 404, body |-> NoBody]

C2_SoftDelete == [][C2_Step]_vars

C2_Witness ==
  /\ req.op = "Read"
  /\ resp.status = 404
  /\ WellFormed(req)
  /\ IsDeletedID(rows, PathID(req))
  /\ \E i \in 1..Len(rows) : ~rows[i].DeletedAt.Valid

(* what List and Read answer on a store that does not fail *)
Listing(rs) == ListHandler(rs, FALSE).resp

Reading(rs, id) == ReadHandler(rs, [kind |-> "canonical", id |-> id], FALSE).resp

SameAnswers(rs1, rs2) ==
  /\ Listing(rs1) = Listing(rs2)
  /\ \A id \in {NilUUID} \cup UUIDs : Reading(rs1, id) = Reading(rs2, id)

ValidBody(body) ==
  /\ body.kind = "object"
  /\ \A i \in 1..Len(FormTags) :
       FirstFailing(FormTags[i].tags, JsonDecode(body).form[FormTags[i].field]) = ""

(* C3: an Update with a well-formed UUID that matches no live record and a *)
(* valid Form leaves the store as it was, so List and every Read answer as *)
(* before, and answers 404 when the store executes it.                     *)
C3_Step ==
  (/\ req'.op = "Update"
   /\ WellFormed(req')
   /\ ValidBody(req'.body)
   /\ ~IsLiveID(rows, PathID(req'))) =>
     /\ rows' = rows
     /\ SameAnswers(rows, rows')
     /\ resp'.status # 200
     /\ ~StoreFailed(calls') => resp' = [status |-> 404, body |-> NoBody]

C3_UpdateMissing == [][C3_Step]_vars

C3_Witness ==
  /\ req.op = "Update"
  /\ resp.status = 404
  /\ IsDeletedID(rows, PathID(req))
  /\ \E i \in 1..Len(rows) : ~rows[i].DeletedAt.Valid

(* the request reaches the decoding of its body *)
ReachesBody(r) == r.op = "Create" \/ (r.op = "Update" /\ WellFormed(r))

(* C4: a Create or Update whose body cannot be decoded answers 400 *)
C4_DecodeFailureIs400 ==
  (ReachesBody(req) /\ req.body.kind = "garbage") => resp.status = 400

(* what the code does there: the decode failure is written by ServerError *)
C4_DecodeFailureIs500 ==
  (ReachesBody(req) /\ req.body.kind = "garbage") =>
     resp = [status |-> 500, body |-> [kind |-> "error", code |-> "RespJSONDecodeFailure"]]

(* the rules of the fields other than the image URL hold *)
ValidButImage(form) ==
  \A i \in 1..Len(FormTags) :
    FormTags[i].field # "ImageURL" =>
      FirstFailing(FormTags[i].tags, form[FormTags[i].field]) = ""

(* C5: a Create whose Form has a valid title, author and published date    *)
(* and no image URL answers 201 when the store executes the insert.        *)
C5_ImageURLOptional ==
  (/\ req.op = "Create"
   /\ req.body.kind = "object"
   /\ ValidButImage(JsonDecode(req.body).form)
   /\ JsonDecode(req.body).form.ImageURL = <<>>
   /\ ~StoreFailed(calls)) => resp.status = 201

(* what the code does there: the url tag fails on the empty string *)
C5_EmptyImageURLRejected ==
  (/\ req.op = "Create"
   /\ req.body.kind = "object"
   /\ JsonDecode(req.body).form.ImageURL = <<>>) =>
     /\ resp.status = 422
     /\ \E k \in 1..Len(resp.body.list) :
          resp.body.list[k] = [field |-> "ImageURL", tag |-> "url"]

(* the fields of a form that break one of their rules *)
ViolatingFields(form) ==
  {FormTags[i].field : i \in
     {j \in 1..Len(FormTags) : FirstFailing(FormTags[j].tags, form[FormTags[j].field]) # ""}}

(* C6: a Create or Update whose decoded Form breaks the rules of one or    *)
(* more fields answers 422 with a list holding an entry for every such     *)
(* field and no other, makes no Repository call and leaves the store as it *)
(* was.                                                                    *)
C6_Step ==
  (/\ ReachesBody(req')
   /\ req'.body.kind = "object"
   /\ ViolatingFields(JsonDecode(req'.body).form) # {}) =>
     /\ resp'.status = 422
     /\ resp'.body.kind = "errors"
     /\ {resp'.body.list[k].field : k \in 1..Len(resp'.body.list)}
          = ViolatingFields(JsonDecode(req'.body).form)
     /\ calls' = <<>>
     /\ rows' = rows

C6_AllViolations == [][C6_Step]_vars

C6_Witness ==
  /\ req.op = "Create"
  /\ JsonDecode(req.body).form.Title = <<>>
  /\ ~AlphaSpace(JsonDecode(req.body).form.Author)
  /\ resp.status = 422
  /\ \E k \in 1..Len(resp.body.list) : resp.body.list[k].field = "Title"
  /\ \E k \in 1..Len(resp.body.list) : resp.body.list[k].field = "Author"

(* C7: a Read, Update or Delete whose path identifier is no UUID answers   *)
(* 400 with the invalid-identifier error, makes no Repository call and     *)
(* leaves the store as it was.                                             *)
C7_Step ==
  (HasPath(req') /\ req'.param.kind = "garbage") =>
     /\ resp' = [status |-> 400,
                 body |-> [kind |-> "error", code |-> "RespInvalidURLParamID"]]
     /\ calls' = <<>>
     /\ rows' = rows

C7_BadIDBeforeStore == [][C7_Step]_vars

C7_Witness ==
  /\ req.op = "Delete"
  /\ req.param.kind = "garbage"
  /\ resp.status = 400
  /\ calls = <<>>
  /\ Len(rows) > 0

ListedDtos(rs) ==
  IF Listing(rs).body.kind = "json" THEN Listing(rs).body.value ELSE <<>>

ListedIDs(rs) == {ListedDtos(rs)[i].ID : i \in 1..Len(ListedDtos(rs))}

(* the DTO repeats the fields of the form, the date as the form wrote it *)
DtoOfForm(dto, form) ==
  /\ dto.Title = form.Title
  /\ dto.Author = form.Author
  /\ dto.PublishedDate = form.PublishedDate
  /\ dto.ImageURL = form.ImageURL
  /\ dto.Description = form.Description

(* C8: after a Create answered 201 List holds the DTOs it held before and  *)
(* one more; Read of the new DTO's identifier answers a DTO whose fields   *)
(* are those of the Form, the date as YYYY-MM-DD; and what Read answers    *)
(* for an identifier changes only by an Update or a Delete of it.          *)
C8_Step ==
  /\ (req'.op = "Create" /\ resp'.status = 201) =>
       /\ Len(ListedDtos(rows')) = Len(ListedDtos(rows)) + 1
       /\ \A i \in 1..Len(ListedDtos(rows)) : ListedDtos(rows')[i] = ListedDtos(rows)[i]
       /\ Cardinality(ListedIDs(rows') \ ListedIDs(rows)) = 1
       /\ \A p \in ListedIDs(rows') \ ListedIDs(rows) :
            /\ ReadHandler(rows', p, FALSE).resp.status = 200
            /\ DtoOfForm(ReadHandler(rows', p, FALSE).resp.body.value,
                         JsonDecode(req'.body).form)
            /\ ReadHandler(rows', p, FALSE).resp.body.value.ID = p
            /\ Len(ReadHandler(rows', p, FALSE).resp.body.value.PublishedDate) = 10
  /\ \A id \in UUIDs :
       (/\ Reading(rows, id).status = 200
        /\ ~(req'.op \in {"Update", "Delete"} /\ WellFormed(req') /\ PathID(req') = id)) =>
          Reading(rows', id) = Reading(rows, id)

C8_CreateThenRead == [][C8_Step]_vars

C8_Witness ==
  /\ req.op = "Create"
  /\ resp.status = 201
  /\ Len(ListedDtos(rows)) = 2
  /\ ListedDtos(rows)[1].PublishedDate # ListedDtos(rows)[2].PublishedDate

(* C9: no two rows share an ID; a row keeps its ID for ever; a row enters  *)
(* the store only by a Create, with the ID uuid.New() returned in it,      *)
(* whatever the body holds; and an Update changes no row but one whose ID  *)
(* is the path identifier.                                                 *)
C9_Step ==
  /\ \A i, j \in 1..Len(rows') : rows'[i].ID = rows'[j].ID => i = j
  /\ \A i \in 1..Len(rows) : i <= Len(rows') /\ rows'[i].ID = rows[i].ID
  /\ Len(rows') # Len(rows) =>
       /\ Len(rows') = Len(rows) + 1
       /\ req'.op = "Create"
       /\ generated' \in UUIDs
       /\ rows'[Len(rows')].ID = generated'
  /\ req'.op = "Update" =>
       \A i \in 1..Len(rows) :
         rows'[i] # rows[i] => (WellFormed(req') /\ rows[i].ID = PathID(req'))

C9_Identity == [][C9_Step]_vars

C9_Witness ==
  /\ req.op = "Update"
  /\ resp.status = 200
  /\ "id" \in DOMAIN req.body.fields
  /\ Atoi(req.body.fields["id"]) # PathID(req)
  /\ IsLiveID(rows, Atoi(req.body.fields["id"]))

LiveRows(rs) == SelectSeq(rs, LAMBDA b : ~b.DeletedAt.Valid)

(* C10: a List that the store executes answers 200; with no live record    *)
(* the body is the text [], and with n > 0 live records it is the JSON     *)
(* encoding of n DTOs, the i-th the DTO of the i-th live record.           *)
C10_Step ==
  (req'.op = "List" /\ ~StoreFailed(calls')) =>
     IF Len(LiveRows(rows)) = 0
     THEN resp' = [status |-> 200, body |-> [kind |-> "text", text |-> "[]"]]
     ELSE /\ resp'.status = 200
          /\ resp'.body.kind = "json"
          /\ Len(resp'.body.value) = Len(LiveRows(rows))
          /\ \A i \in 1..Len(LiveRows(rows)) :
               /\ resp'.body.value[i].ID = [kind |-> "canonical", id |-> LiveRows(rows)[i].ID]
               /\ resp'.body.value[i].Title = LiveRows(rows)[i].Title
               /\ resp'.body.value[i].Author = LiveRows(rows)[i].Author
               /\ resp'.body.value[i].ImageURL = LiveRows(rows)[i].ImageURL
               /\ resp'.body.value[i].Description = LiveRows(rows)[i].Description

C10_ListBody == [][C10_Step]_vars

C10_Witness ==
  /\ req.op = "List"
  /\ resp.status = 200
  /\ resp.body.kind = "json"
  /\ Len(resp.body.value) = 2

=============================================================================
